---- MODULE Spec2Model ----
(***************************************************************************)
(* Energy Management System: the reconciliation loop of main.rs (read the  *)
(* P1 meter, read the battery snapshot, reconcile, sleep), the per-key     *)
(* Indevolt reader (reader.rs) and the SetData command dispatcher          *)
(* (controller.rs).                                                        *)
(*                                                                         *)
(* Time is in seconds.  f64 values that the model needs are integral and   *)
(* are written as integers, except the meter's active power, which is kept *)
(* as mantissa * 10^exponent so that the saturating cast `as i32` is       *)
(* computed and not assumed.                                               *)
(***************************************************************************)
EXTENDS Integers, Sequences, FiniteSets, TLC

VARIABLES
    pc,            \* main.rs loop position: Idle, FetchingMeter, FetchingBattery,
                   \* Reconciling, Sleeping, or Panicked (the process has aborted)
    cycle,         \* identifier of the current loop iteration (wraps)
    clock,         \* cycle_start.elapsed(): seconds since `cycle_start = Instant::now()`
    work,          \* history: seconds of awaited I/O in the current iteration
    meter_http,    \* history: how the meter GET of this iteration ended
    p1,            \* `let p1 = read_p1(..).await`       (Option<P1Reading>)
    battery,       \* `let battery = read_battery_snapshot(..).await`
    prevBattery,   \* history: the snapshot of the previous iteration
    inflight,      \* HTTP requests sent and not yet completed
    results,       \* join_all's output slot of each fetch_sensor future
    responses,     \* history: what the device answered to each sensor request
    ems_log,       \* the "[EMS]" reconciliation record of this iteration
    sleep_log,     \* the "[EMS] Cycle done"/"overran" record of this iteration
    cmd,           \* controller.rs: the SetDataConfig of the last dispatcher call
    cmd_result,    \* controller.rs: what that call returned
    http,          \* history: how the HTTP exchange of that call ended
    exchanges,     \* history: HTTP requests sent by that call
    url,           \* history: the path that call requested
    realtime_issued, \* history: set_working_mode(RealtimeControl) was called before
    intent,        \* history: the public dispatcher function called, with its arguments
    device,        \* environment: the inverter's working-mode and control registers
    ts_in,         \* p1/reader.rs: the argument of a parse_p1_timestamp call
    ts_out,        \* p1/reader.rs: what that call returned
    meter_doc,     \* p1/reader.rs: how the meter GET of a read_p1 call ended
    reading,       \* p1/reader.rs: what that read_p1 call returned and logged
    config_file,   \* config.rs: the content of config.json
    config,        \* config.rs: what load_config returned
    usable,        \* config.rs: config.usable_capacity_kwh()
    started        \* main.rs: the loop has been entered with `config`

vars == << pc, cycle, clock, work, meter_http, p1, battery, prevBattery, inflight, results,
           responses, ems_log, sleep_log, cmd, cmd_result, http, exchanges, url,
           realtime_issued, intent, device, ts_in, ts_out, meter_doc, reading,
           config_file, config, usable, started >>

loopVars == << pc, cycle, clock, work, meter_http, p1, battery, prevBattery, inflight, results,
               responses, ems_log, sleep_log >>

cmdVars == << cmd, cmd_result, http, exchanges, url, realtime_issued, intent, device >>

meterVars == << ts_in, ts_out, meter_doc, reading >>

configVars == << config_file, config, usable, started >>

-----------------------------------------------------------------------------
(* Bounds of the model *)

\* Loop iterations are told apart by an identifier that wraps at NumCycleIds.
NumCycleIds == 2

\* Awaited I/O stops taking time once an iteration has lasted this long.
MaxCycleSeconds == 40

\* The latency of a read that is slow but shorter than the interval.
ShortLatency == 5

\* Sensor keys the model polls: one per field type (f64, String, i32).
ModelKeys == {"BatterySOC", "BatteryState", "MeterPower"}

\* `value` strings the device can answer with.
DeviceValues == {"85", "Charging"}

\* HTTP statuses the servers can answer with.
Statuses == {200, 204, 404}

-----------------------------------------------------------------------------
(* Program constants *)

\* config.rs: poll_interval_seconds (Default), main.rs: interval
poll_interval_seconds == 30

I32_MAX == 2147483647

I32_MIN == (-I32_MAX) - 1

SNAPSHOT_KEYS ==
    << "BatterySOC", "BatteryState", "WorkingMode",
       "BatteryPower", "DCInputPower1", "DCInputPower2",
       "TotalDCOutputPower", "TotalACOutputPower", "TotalACInputPower",
       "MeterPower", "DailyProduction", "CumulativeProduction",
       "DailyCharging", "DailyDischarging",
       "TotalCharging", "TotalDischarging", "TotalACInputEnergy" >>

\* reqwest's StatusCode::is_success
is_success(status) == status >= 200 /\ status <= 299

-----------------------------------------------------------------------------
(* p1_models.rs and handlers/p1/reader.rs: the meter adapter *)

None == [tag |-> "None"]

Unset == [tag |-> "unset"]

-----------------------------------------------------------------------------
(* handlers/p1/reader.rs: parse_p1_timestamp.  A string is the sequence of *)
(* its characters; a character is one byte, except MultiByte, which is two. *)

DigitChars == << "0", "1", "2", "3", "4", "5", "6", "7", "8", "9" >>

IsDigit(c) == \E i \in 1..10 : DigitChars[i] = c

DigitValue(c) == (CHOOSE i \in 1..10 : DigitChars[i] = c) - 1

\* A character whose UTF-8 encoding is two bytes (U+00E9).
MultiByte == "U+00E9"

ByteWidth(c) == IF c = MultiByte THEN 2 ELSE 1

\* str::len: the length in bytes.
RECURSIVE ByteLen(_)
ByteLen(str) == IF str = << >> THEN 0 ELSE ByteWidth(Head(str)) + ByteLen(Tail(str))

\* str::is_char_boundary
IsCharBoundary(str, i) == \E n \in 0..Len(str) : ByteLen(SubSeq(str, 1, n)) = i

\* &str[a..b] for byte offsets that are character boundaries.
Slice(str, a, b) ==
    LET first == CHOOSE n \in 0..Len(str) : ByteLen(SubSeq(str, 1, n)) = a
        last  == CHOOSE n \in 0..Len(str) : ByteLen(SubSeq(str, 1, n)) = b
    IN  SubSeq(str, first + 1, last)

\* The two-digit number a field of the formatted string is parsed to.
TwoDigits(field) == 10 * DigitValue(field[1]) + DigitValue(field[2])

IsLeap(yy) == yy % 4 = 0

DaysInMonth(yy, mo) ==
    IF mo = 2 THEN (IF IsLeap(yy) THEN 29 ELSE 28)
    ELSE IF mo \in {4, 6, 9, 11} THEN 30 ELSE 31

RECURSIVE DaysBeforeMonth(_, _)
DaysBeforeMonth(yy, mo) ==
    IF mo = 1 THEN 0 ELSE DaysBeforeMonth(yy, mo - 1) + DaysInMonth(yy, mo - 1)

\* Days from 2000-01-01 to the day d of month mo of year 20yy.
DaysSince2000(yy, mo, d) == yy * 365 + ((yy + 3) \div 4) + DaysBeforeMonth(yy, mo) + (d - 1)

\* 0 = Sunday; 2000-01-01 was a Saturday.
DayOfWeek(yy, mo, d) == (6 + DaysSince2000(yy, mo, d)) % 7

\* The last Sunday of a 31-day month (March, October).
LastSunday(yy, mo) == 31 - DayOfWeek(yy, mo, 31)

\* NaiveDateTime::parse_from_str(formatted, "%Y-%m-%d %H:%M:%S") on the six
\* two-character fields: Ok for six digit pairs that are a date and a time of
\* day (chrono takes second 60 as a leap second), else Err.
parse_from_str(fields) ==
    IF \E i \in 1..6 : \E j \in 1..Len(fields[i]) : ~IsDigit(fields[i][j])
    THEN [ok |-> FALSE]
    ELSE LET yy == TwoDigits(fields[1])
             mo == TwoDigits(fields[2])
             d  == TwoDigits(fields[3])
             h  == TwoDigits(fields[4])
             mi == TwoDigits(fields[5])
             sec == TwoDigits(fields[6])
         IN  IF /\ mo \in 1..12
                /\ d >= 1 /\ d <= DaysInMonth(yy, mo)
                /\ h <= 23 /\ mi <= 59 /\ sec <= 60
             THEN [ok |-> TRUE,
                   naive |-> [yy |-> yy, mo |-> mo, d |-> d, h |-> h, mi |-> mi, sec |-> sec]]
             ELSE [ok |-> FALSE]

\* chrono::Local.from_local_datetime(naive) in the zone the doc comment names
\* (Belgian local time): the UTC offsets, in hours, the civil time can have.
\* None in the hour skipped on the last Sunday of March, two in the hour
\* repeated on the last Sunday of October.
from_local_datetime(naive) ==
    LET at == << naive.mo, naive.d, naive.h >>
        Before(x, y) ==
            \/ x[1] < y[1]
            \/ x[1] = y[1] /\ x[2] < y[2]
            \/ x[1] = y[1] /\ x[2] = y[2] /\ x[3] < y[3]
        spring == << 3, LastSunday(naive.yy, 3), 2 >>
        autumn == << 10, LastSunday(naive.yy, 10), 2 >>
    IN  IF Before(at, spring) THEN {1}
        ELSE IF at = spring THEN {}
        ELSE IF Before(at, autumn) THEN {2}
        ELSE IF at = autumn THEN {1, 2}
        ELSE {1}

\* local_dt.with_timezone(&Utc): the instant, as days since 2000-01-01 and
\* seconds of that day, in UTC.
with_timezone_utc(naive, offset) ==
    LET days == DaysSince2000(naive.yy, naive.mo, naive.d)
        secs == (naive.h - offset) * 3600 + naive.mi * 60 + naive.sec
    IN  IF secs < 0
        THEN [days |-> days - 1, secs |-> secs + 86400]
        ELSE [days |-> days, secs |-> secs]

\* Mutant of parse_p1_timestamp: the civil time is taken as UTC.
parse_p1_timestamp_AsUtc(timestamp) ==
    IF ByteLen(timestamp) # 12
    THEN [tag |-> "Err", msg |-> "Invalid P1 timestamp length (expected 12)"]
    ELSE IF \E i \in {2, 4, 6, 8, 10} : ~IsCharBoundary(timestamp, i)
    THEN [tag |-> "Panic"]
    ELSE LET fields == [i \in 1..6 |-> Slice(timestamp, 2 * (i - 1), 2 * i)]
             parsed == parse_from_str(fields)
         IN  IF ~parsed.ok
             THEN [tag |-> "Err", msg |-> "Cannot parse"]
             ELSE [tag |-> "Ok", ts |-> with_timezone_utc(parsed.naive, 0)]

\* parse_p1_timestamp.  The slices &timestamp[0..2] .. &timestamp[10..12]
\* panic when an offset is not a character boundary.
parse_p1_timestamp(timestamp) ==
    IF ByteLen(timestamp) # 12
    THEN [tag |-> "Err", msg |-> "Invalid P1 timestamp length (expected 12)"]
    ELSE IF \E i \in {2, 4, 6, 8, 10} : ~IsCharBoundary(timestamp, i)
    THEN [tag |-> "Panic"]
    ELSE LET fields == [i \in 1..6 |-> Slice(timestamp, 2 * (i - 1), 2 * i)]
             parsed == parse_from_str(fields)
         IN  IF ~parsed.ok
             THEN [tag |-> "Err", msg |-> "Cannot parse"]
             ELSE LET offsets == from_local_datetime(parsed.naive)
                  IN  IF Cardinality(offsets) = 1
                      THEN [tag |-> "Ok",
                            ts |-> with_timezone_utc(parsed.naive,
                                                     CHOOSE o \in offsets : TRUE)]
                      ELSE [tag |-> "Err", msg |-> "Ambiguous local->UTC conversion"]

-----------------------------------------------------------------------------
(* p1_models.rs and handlers/p1/reader.rs: the meter document and read_p1 *)

RECURSIVE Pow10(_)
Pow10(e) == IF e = 0 THEN 1 ELSE 10 * Pow10(e - 1)

\* The six characters of a number written with six digits.
SixDigits(n) ==
    [i \in 1..6 |-> DigitChars[((n \div Pow10(6 - i)) % 10) + 1]]

\* The timestamp string YYMMDDHHmmss.
Ts(yymmdd, hhmmss) == SixDigits(yymmdd) \o SixDigits(hhmmss)

\* Timestamp strings a meter document can carry: a summer and a winter time;
\* the hour skipped and the hour repeated by daylight saving; month 13; a
\* 4-byte string; 12 bytes with a letter; 12 bytes with a two-byte character
\* across the offset 2, and with one that ends at it; 12 characters in 13 bytes.
Timestamps ==
    { Ts(240615, 123000), Ts(240115, 003000),
      Ts(231231, 235959), Ts(240101, 003000),
      Ts(240331, 023000), Ts(241027, 023000),
      Ts(241315, 123000),
      SubSeq(Ts(240615, 123000), 1, 4),
      [Ts(240615, 123000) EXCEPT ![12] = "x"],
      << "2", MultiByte >> \o SubSeq(Ts(240615, 123000), 4, 12),
      << MultiByte >> \o SubSeq(Ts(240615, 123000), 3, 12),
      [Ts(240615, 123000) EXCEPT ![12] = MultiByte] }

\* The timestamps of the documents the loop is run with.
WellFormedTimestamp == Ts(240615, 123000)

\* Utc::now()
WallClocks == { [days |-> 9100, secs |-> 43200] }

\* active_power_w values the meter document can carry, as m * 10^e watts.
MeterPowers == { [m |-> 5, e |-> 0], [m |-> -3, e |-> 9] }

\* A response body that deserialises to a P1Data (the fields the program reads).
P1Document(power, peak_ts, gas_ts) ==
    [ json_ok |-> TRUE, active_power_w |-> power,
      montly_power_peak_timestamp |-> peak_ts, gas_timestamp |-> gas_ts ]

\* The body of the meter's HTTP response in the loop: not a P1Data document,
\* or one (with well-formed timestamps).
MeterBodies ==
    { [json_ok |-> FALSE] }
        \cup { P1Document(f, WellFormedTimestamp, WellFormedTimestamp) : f \in MeterPowers }

\* How the GET of the meter URL can end.
MeterOutcomes ==
    { [kind |-> "transport_error"] }
        \cup { [kind |-> "response", status |-> s, body |-> b] :
                 s \in Statuses, b \in MeterBodies }

\* fetch_p1_data: send().await?.text().await? ; the status is not looked at.
fetch_p1_data(outcome) ==
    IF outcome.kind = "transport_error"
    THEN [ok |-> FALSE]
    ELSE [ok |-> TRUE, json |-> outcome.body]

\* P1Data::from_json
from_json(json) ==
    IF json.json_ok
    THEN [ok |-> TRUE,
          raw |-> [ active_power_w |-> json.active_power_w,
                    montly_power_peak_timestamp |-> json.montly_power_peak_timestamp,
                    gas_timestamp |-> json.gas_timestamp ]]
    ELSE [ok |-> FALSE]

\* A line read_p1 writes to the log.
LogLine(level, what) == [level |-> level, what |-> what]

\* read_p1 with Utc::now() = now: what it returns (None on a fetch error or on
\* a JSON parse error, else Some(reading); Panic when a timestamp slice
\* panics) and what it logs.
read_p1(outcome, now) ==
    LET fetched == fetch_p1_data(outcome)
    IN  IF ~fetched.ok
        THEN [ret |-> None, log |-> << LogLine("error", "fetch") >>]
        ELSE
        LET parsed == from_json(fetched.json)
        IN  IF ~parsed.ok
            THEN [ret |-> None, log |-> << LogLine("error", "json") >>]
            ELSE
            LET raw  == parsed.raw
                peak == parse_p1_timestamp(raw.montly_power_peak_timestamp)
            IN  IF peak.tag = "Panic"
                THEN [ret |-> [tag |-> "Panic"], log |-> << >>]
                ELSE
                LET peakLog == IF peak.tag = "Ok" THEN << >>
                               ELSE << LogLine("warn", "monthly_power_peak_timestamp") >>
                    gas == parse_p1_timestamp(raw.gas_timestamp)
                IN  IF gas.tag = "Panic"
                    THEN [ret |-> [tag |-> "Panic"], log |-> peakLog]
                    ELSE
                    [ ret |-> [ tag |-> "Some", raw |-> raw,
                                monthly_power_peak_timestamp_utc |->
                                    IF peak.tag = "Ok" THEN peak.ts ELSE now,
                                gas_timestamp_utc |->
                                    IF gas.tag = "Ok" THEN gas.ts ELSE now ],
                      log |-> peakLog \o
                              (IF gas.tag = "Ok" THEN << >>
                               ELSE << LogLine("warn", "gas_timestamp") >>) ]

-----------------------------------------------------------------------------
(* handlers/indevolt/reader.rs: the per-key inverter adapter *)

Pending == [tag |-> "pending"]

\* The body of a sensor response: not a SensorReading, or one (unit left out).
SensorBodies ==
    { [json_ok |-> FALSE] }
        \cup { [json_ok |-> TRUE, key |-> k, value |-> v] :
                 k \in ModelKeys, v \in DeviceValues }

\* How the GET of /device/sensor?key=<KEY> can end.
SensorOutcomes ==
    { [kind |-> "transport_error"] }
        \cup { [kind |-> "response", status |-> s, body |-> b] :
                 s \in Statuses, b \in SensorBodies }

\* fetch_sensor: Some(reading) on a success status with a parseable body, else None.
fetch_sensor(outcome) ==
    IF outcome.kind = "response" /\ is_success(outcome.status)
    THEN IF outcome.body.json_ok
         THEN [tag |-> "Some", key |-> outcome.body.key, value |-> outcome.body.value]
         ELSE None
    ELSE None

\* HashMap::insert
insert(map, k, v) ==
    [x \in (DOMAIN map) \cup {k} |-> IF x = k THEN v ELSE map[x]]

EmptyMap == [x \in {} |-> ""]

\* results.into_iter().flatten().map(|r| (r.key, r.value)).collect(): the slots
\* are visited in the order of SNAPSHOT_KEYS and a later insert overwrites.
RECURSIVE collect(_, _, _)
collect(res, i, map) ==
    IF i > Len(SNAPSHOT_KEYS)
    THEN map
    ELSE LET k == SNAPSHOT_KEYS[i]
         IN  IF k \in DOMAIN res /\ res[k].tag = "Some"
             THEN collect(res, i + 1, insert(map, res[k].key, res[k].value))
             ELSE collect(res, i + 1, map)

\* str::parse::<f64> and str::parse::<i32> on the device's value strings.
ParsesAsNumber(v) == v \in {"85"}

NumberOf(v) == CASE v = "85" -> 85

parse_f64(readings, key) ==
    IF key \in DOMAIN readings /\ ParsesAsNumber(readings[key])
    THEN NumberOf(readings[key])
    ELSE 0

parse_i32(readings, key) ==
    IF key \in DOMAIN readings /\ ParsesAsNumber(readings[key])
    THEN NumberOf(readings[key])
    ELSE 0

parse_str(readings, key) ==
    IF key \in DOMAIN readings THEN readings[key] ELSE ""

\* Mutant of BatterySnapshot: a field without a reading keeps the value it had
\* in the previous snapshot.
BatterySnapshot_KeepPrevious(readings) ==
    LET old == IF prevBattery = Unset
               THEN [battery_soc |-> 0, battery_state |-> "", meter_power_w |-> 0]
               ELSE prevBattery
    IN  [ battery_soc   |-> IF "BatterySOC" \in DOMAIN readings
                            THEN parse_f64(readings, "BatterySOC")
                            ELSE old.battery_soc,
          battery_state |-> IF "BatteryState" \in DOMAIN readings
                            THEN parse_str(readings, "BatteryState")
                            ELSE old.battery_state,
          meter_power_w |-> IF "MeterPower" \in DOMAIN readings
                            THEN parse_i32(readings, "MeterPower")
                            ELSE old.meter_power_w ]

\* The struct literal that ends read_battery_snapshot (the modelled fields).
BatterySnapshot(readings) ==
    [ battery_soc   |-> parse_f64(readings, "BatterySOC"),
      battery_state |-> parse_str(readings, "BatteryState"),
      meter_power_w |-> parse_i32(readings, "MeterPower") ]

\* Mutant of JoinReady: the join returns with the first completed future.
JoinReady_FirstDone(res) == \E k \in DOMAIN res : res[k] # Pending

\* join_all returns once every future has completed.
JoinReady(res) == \A k \in DOMAIN res : res[k] # Pending

\* read_battery_snapshot, from the joined results on.
read_battery_snapshot(res) == BatterySnapshot(collect(res, 1, EmptyMap))

-----------------------------------------------------------------------------
(* configuration/config.rs.  The f64 fields are integers: capacities in Wh *)
(* (12.0 kWh is 12000), SOC limits in whole percent.                       *)

\* Config (the fields the program and the claims read)
ConfigOf(rated, min_soc, max_soc) ==
    [ poll_interval_seconds |-> poll_interval_seconds,
      battery_rated_capacity_kwh |-> rated,
      battery_min_soc_percent |-> min_soc,
      battery_max_soc_percent |-> max_soc ]

\* impl Default for Config: rated 12.0 kWh, min SOC 10 %, max SOC 100 %.
DefaultConfig == ConfigOf(12000, 10, 100)

\* Values config.json can give the three battery fields.
RatedCapacities == {-12000, 0, 12000}

SocLimits == {0, 10, 50, 100}

\* What config.json can be: absent, not a JSON document of a Config, or one.
ConfigFiles ==
    { [kind |-> "missing"], [kind |-> "malformed"] }
        \cup { [kind |-> "json", config |-> ConfigOf(r, lo, hi)] :
                 r \in RatedCapacities, lo \in SocLimits, hi \in SocLimits }

\* Mutant of usable_capacity_kwh: the reserve below min SOC is not subtracted.
usable_capacity_kwh_IgnoresReserve(self) ==
    (self.battery_rated_capacity_kwh * self.battery_max_soc_percent) \div 100

\* Config::usable_capacity_kwh (exact for capacities that are whole hundreds of Wh)
usable_capacity_kwh(self) ==
    (self.battery_rated_capacity_kwh
        * (self.battery_max_soc_percent - self.battery_min_soc_percent))
    \div 100

\* load_config: both failures are `expect` panics; nothing inspects the values.
load_config(file) ==
    IF file.kind = "missing"
    THEN [tag |-> "Panic", msg |-> "Failed to read configuration file"]
    ELSE IF file.kind = "malformed"
    THEN [tag |-> "Panic", msg |-> "Failed to parse configuration file"]
    ELSE [tag |-> "Config", value |-> file.config]

-----------------------------------------------------------------------------
(* main.rs: the reconciliation loop *)

interval == poll_interval_seconds

\* Seconds one awaited read can take: none, a few, or the whole interval; two
\* reads together can then last less than, exactly or more than the interval.
Latencies == {0, ShortLatency, interval}

\* `f as i32` for the f64 m * 10^e: the value when it fits, else saturated.
AsI32(f) ==
    LET p == Pow10(f.e)
    IN  IF f.m >= 0
        THEN IF f.m > I32_MAX \div p THEN I32_MAX ELSE f.m * p
        ELSE IF (-f.m) > I32_MAX \div p THEN I32_MIN ELSE f.m * p

\* Whether the i32 subtraction a - b leaves the i32 range.
SubOverflows(a, b) ==
    \/ b < 0 /\ a > I32_MAX + b
    \/ b > 0 /\ a < I32_MIN + b

\* a - b in two's complement (i32::wrapping_sub).
WrappingSub(a, b) ==
    IF ~SubOverflows(a, b)
    THEN a - b
    ELSE IF b < 0
         THEN ((a - I32_MAX) - 1) + (((-1) - b) - I32_MAX)
         ELSE ((a - I32_MIN) + 1) + (I32_MAX - (b - 1))

NoLog == [kind |-> "none"]

\* No dispatcher function has been called.
NoIntent == [op |-> "none"]

\* The inverter before the dispatcher wrote anything: autonomous
\* self-consumption (code 1) and no real-time command.
DeviceAtRest == [mode |-> 1, control |-> << 0, 0, 0 >>]

NoCmd == [tag |-> "none"]

SensorRequests(c) == { [cyc |-> c, target |-> k] : k \in ModelKeys }

\* The loop and the dispatcher before their first step.
LoopInit ==
    /\ pc = "Idle"
    /\ cycle = 0
    /\ clock = 0
    /\ work = 0
    /\ meter_http = [kind |-> "none"]
    /\ p1 = Unset
    /\ battery = Unset
    /\ prevBattery = Unset
    /\ inflight = {}
    /\ results = [k \in ModelKeys |-> Pending]
    /\ responses = [k \in ModelKeys |-> Pending]
    /\ ems_log = NoLog
    /\ sleep_log = NoLog
    /\ cmd = NoCmd
    /\ cmd_result = [tag |-> "none"]
    /\ http = [kind |-> "none"]
    /\ exchanges = 0
    /\ url = ""
    /\ realtime_issued = FALSE
    /\ intent = NoIntent
    /\ device = DeviceAtRest

\* No parse_p1_timestamp or read_p1 call is being looked at.
MeterIdle ==
    /\ ts_in = << >>
    /\ ts_out = Unset
    /\ meter_doc = [kind |-> "none"]
    /\ reading = Unset

\* main.rs 24-40: load_config has returned the configuration the loop runs with.
ConfigLoaded ==
    /\ config_file = [kind |-> "json", config |-> DefaultConfig]
    /\ config = load_config(config_file)
    /\ usable = Unset
    /\ started = TRUE

Init == LoopInit /\ MeterIdle /\ ConfigLoaded

\* Mutant of LoopTop: both reads are started together (a join of the two reads).
LoopTop_BothReadsAtOnce ==
    /\ pc = "Idle"
    /\ pc' = "FetchingMeter"
    /\ cycle' = (cycle + 1) % NumCycleIds
    /\ clock' = 0
    /\ work' = 0
    /\ meter_http' = [kind |-> "none"]
    /\ p1' = Unset
    /\ prevBattery' = battery
    /\ battery' = Unset
    /\ ems_log' = NoLog
    /\ sleep_log' = NoLog
    /\ inflight' = inflight \cup { [cyc |-> cycle', target |-> "p1"] }
                            \cup SensorRequests(cycle')
    /\ UNCHANGED << results, responses, cmdVars, meterVars, configVars >>

\* Mutant of LoopTop: cycle_start is taken once, before the loop.
LoopTop_StartTakenOnce ==
    /\ pc = "Idle"
    /\ pc' = "FetchingMeter"
    /\ cycle' = (cycle + 1) % NumCycleIds
    /\ clock' = clock
    /\ work' = 0
    /\ meter_http' = [kind |-> "none"]
    /\ p1' = Unset
    /\ prevBattery' = battery
    /\ battery' = Unset
    /\ ems_log' = NoLog
    /\ sleep_log' = NoLog
    /\ inflight' = inflight \cup { [cyc |-> cycle', target |-> "p1"] }
    /\ UNCHANGED << results, responses, cmdVars, meterVars, configVars >>

\* main.rs 46-50: the top of `loop`: cycle_start = Instant::now(), and read_p1
\* sends the GET of the meter URL.
LoopTop ==
    /\ pc = "Idle"
    /\ pc' = "FetchingMeter"
    /\ cycle' = (cycle + 1) % NumCycleIds
    /\ clock' = 0
    /\ work' = 0
    /\ meter_http' = [kind |-> "none"]
    /\ p1' = Unset
    /\ prevBattery' = battery
    /\ battery' = Unset
    /\ ems_log' = NoLog
    /\ sleep_log' = NoLog
    /\ inflight' = inflight \cup { [cyc |-> cycle', target |-> "p1"] }
    /\ UNCHANGED << results, responses, cmdVars, meterVars, configVars >>

\* Mutant of MeterResponse: a failed meter read skips the rest of the iteration.
MeterResponse_SkipOnFailure ==
    /\ pc = "FetchingMeter"
    /\ \E r \in inflight, outcome \in MeterOutcomes, d \in Latencies,
            now \in WallClocks :
         /\ r.target = "p1"
         /\ clock + d <= MaxCycleSeconds
         /\ meter_http' = outcome
         /\ p1' = read_p1(outcome, now).ret
         /\ clock' = clock + d
         /\ work' = work + d
         /\ IF read_p1(outcome, now).ret = None
            THEN /\ inflight' = inflight \ {r}
                 /\ pc' = "Sleeping"
            ELSE /\ inflight' = (inflight \ {r}) \cup SensorRequests(cycle)
                 /\ pc' = "FetchingBattery"
    /\ results' = [k \in ModelKeys |-> Pending]
    /\ responses' = [k \in ModelKeys |-> Pending]
    /\ UNCHANGED << cycle, battery, prevBattery, ems_log, sleep_log, cmdVars, meterVars, configVars >>

\* main.rs 50-53, reader.rs 83-92: the meter GET completes after d seconds,
\* read_p1 returns, and read_battery_snapshot fires one request per key.
MeterResponse ==
    /\ pc = "FetchingMeter"
    /\ \E r \in inflight, outcome \in MeterOutcomes, d \in Latencies,
            now \in WallClocks :
         /\ r.target = "p1"
         /\ clock + d <= MaxCycleSeconds
         /\ meter_http' = outcome
         /\ p1' = read_p1(outcome, now).ret
         /\ clock' = clock + d
         /\ work' = work + d
         /\ inflight' = (inflight \ {r}) \cup SensorRequests(cycle)
    /\ results' = [k \in ModelKeys |-> Pending]
    /\ responses' = [k \in ModelKeys |-> Pending]
    /\ pc' = "FetchingBattery"
    /\ UNCHANGED << cycle, battery, prevBattery, ems_log, sleep_log, cmdVars, meterVars, configVars >>

\* The first slot, in the order of SNAPSHOT_KEYS, that holds no result yet.
FirstPending(res) ==
    LET idx(k) == CHOOSE i \in 1..Len(SNAPSHOT_KEYS) : SNAPSHOT_KEYS[i] = k
        open   == { k \in DOMAIN res : res[k] = Pending }
    IN  CHOOSE k \in open : \A q \in open : idx(k) <= idx(q)

\* Mutant of SensorResponse: the results are kept in the order of completion
\* (an unordered join), not in the slot of their future.
SensorResponse_CompletionOrder(k) ==
    /\ \E r \in inflight, outcome \in SensorOutcomes :
         /\ r.target = k
         /\ \E q \in DOMAIN results : results[q] = Pending
         /\ results' = [results EXCEPT ![FirstPending(results)] = fetch_sensor(outcome)]
         /\ responses' = [responses EXCEPT ![k] = fetch_sensor(outcome)]
         /\ inflight' = inflight \ {r}
    /\ UNCHANGED << pc, cycle, clock, work, meter_http, p1, battery, prevBattery,
                    ems_log, sleep_log, cmdVars, meterVars, configVars >>

\* reader.rs 51-77: one fetch_sensor future completes.
SensorResponse(k) ==
    /\ \E r \in inflight, outcome \in SensorOutcomes :
         /\ r.target = k
         /\ results' = [results EXCEPT ![k] = fetch_sensor(outcome)]
         /\ responses' = [responses EXCEPT ![k] = fetch_sensor(outcome)]
         /\ inflight' = inflight \ {r}
    /\ UNCHANGED << pc, cycle, clock, work, meter_http, p1, battery, prevBattery,
                    ems_log, sleep_log, cmdVars, meterVars, configVars >>

\* reader.rs 92-135: join_all returns, d seconds after the requests were sent,
\* and the snapshot is built from the joined results.
JoinAll ==
    /\ pc = "FetchingBattery"
    /\ JoinReady(results)
    /\ \E d \in Latencies :
         /\ clock + d <= MaxCycleSeconds
         /\ clock' = clock + d
         /\ work' = work + d
    /\ battery' = read_battery_snapshot(results)
    /\ results' = [k \in ModelKeys |-> Pending]
    /\ meter_http' = [kind |-> "none"]
    /\ pc' = "Reconciling"
    /\ UNCHANGED << cycle, p1, prevBattery, inflight, responses,
                    ems_log, sleep_log, cmdVars, meterVars, configVars >>

\* Mutant of Reconcile: the optimiser placeholder of main.rs 114-117 is live and
\* sends a charge command when a meter reading is present.
Reconcile_RunsOptimiser ==
    /\ pc = "Reconciling"
    /\ IF p1.tag = "Some"
       THEN LET p1_w  == AsI32(p1.raw.active_power_w)
                inv_w == battery.meter_power_w
            IN  /\ ems_log' = [ kind |-> "reconcile", p1_w |-> p1_w, inv_w |-> inv_w,
                                diff_w |-> WrappingSub(p1_w, inv_w),
                                battery_soc |-> battery.battery_soc,
                                battery_state |-> battery.battery_state ]
                /\ cmd' = [f |-> 16, t |-> 47015, v |-> << 1, 2400, 100 >>]
       ELSE /\ ems_log' = [kind |-> "no_p1"]
            /\ cmd' = cmd
    /\ responses' = [k \in ModelKeys |-> Pending]
    /\ pc' = "Sleeping"
    /\ UNCHANGED << cycle, clock, work, meter_http, p1, battery, prevBattery, inflight,
                    results, sleep_log, cmd_result, http, exchanges, url,
                    realtime_issued, intent, device, meterVars, configVars >>

\* main.rs 97-112: the reconciliation record, when p1_w - inv_w fits in i32 or
\* when the build wraps on overflow (overflow checks off).
Reconcile ==
    /\ pc = "Reconciling"
    /\ IF p1.tag = "Some"
       THEN LET p1_w  == AsI32(p1.raw.active_power_w)
                inv_w == battery.meter_power_w
            IN  ems_log' = [ kind |-> "reconcile", p1_w |-> p1_w, inv_w |-> inv_w,
                             diff_w |-> WrappingSub(p1_w, inv_w),
                             battery_soc |-> battery.battery_soc,
                             battery_state |-> battery.battery_state ]
       ELSE ems_log' = [kind |-> "no_p1"]
    /\ responses' = [k \in ModelKeys |-> Pending]
    /\ pc' = "Sleeping"
    /\ UNCHANGED << cycle, clock, work, meter_http, p1, battery, prevBattery, inflight,
                    results, sleep_log, cmdVars, meterVars, configVars >>

\* main.rs 101: p1_w - inv_w overflows and the build checks overflow (the dev
\* profile): the subtraction panics and the process ends.
ReconcilePanic ==
    /\ pc = "Reconciling"
    /\ p1.tag = "Some"
    /\ SubOverflows(AsI32(p1.raw.active_power_w), battery.meter_power_w)
    /\ pc' = "Panicked"
    /\ responses' = [k \in ModelKeys |-> Pending]
    /\ UNCHANGED << cycle, clock, work, meter_http, p1, battery, prevBattery, inflight,
                    results, ems_log, sleep_log, cmdVars, meterVars, configVars >>

\* main.rs 119-130: sleep for what remains of the interval, or skip the sleep.
Sleeping ==
    /\ pc = "Sleeping"
    /\ LET elapsed == clock
       IN  IF elapsed < interval
           THEN LET remaining == interval - elapsed
                IN  /\ sleep_log' = [kind |-> "sleeping", remaining |-> remaining]
                    /\ clock' = clock + remaining
           ELSE /\ sleep_log' = [kind |-> "overrun", remaining |-> 0]
                /\ clock' = clock
    /\ pc' = "Idle"
    /\ UNCHANGED << cycle, work, meter_http, p1, battery, prevBattery, inflight, results,
                    responses, ems_log, cmdVars, meterVars, configVars >>

Next ==
    \/ LoopTop
    \/ MeterResponse
    \/ \E k \in ModelKeys : SensorResponse(k)
    \/ JoinAll
    \/ Reconcile
    \/ ReconcilePanic
    \/ Sleeping

Spec == Init /\ [][Next]_vars

-----------------------------------------------------------------------------
(* handlers/indevolt/controller.rs: the SetData command dispatcher.  main.rs *)
(* never calls it; DispatcherSpec is the dispatcher under an arbitrary caller. *)

REG_WORKING_MODE == 47005

REG_CONTROL == 47015

FUNC_WRITE == 16

ACTION_STOP == 0

ACTION_CHARGE == 1

ACTION_DISCHARGE == 2

\* Arguments the caller passes.
Modes == {"SelfConsumedPrioritized", "RealtimeControl", "Schedule"}

Watts == {-500, 0, 2400, 100000}

SocPercents == {0, 10, 100, 150}

\* WorkingMode::register_value (controller.rs 8: 1=Self-consumed, 4=Realtime,
\* 5=Schedule).
register_value(mode) ==
    CASE mode = "SelfConsumedPrioritized" -> 1
      [] mode = "RealtimeControl" -> 4
      [] mode = "Schedule" -> 5

\* The working-mode decode of the inverter models: the label of a mode code.
decode_working_mode(code) ==
    CASE code = 1 -> "SelfConsumedPrioritized"
      [] code = 4 -> "RealtimeControl"
      [] code = 5 -> "Schedule"
      [] OTHER -> "Mode(" \o ToString(code) \o ")"

\* How the GET of /rpc/Indevolt.SetData can end.
CmdOutcomes ==
    { [kind |-> "transport_error", error |-> e] :
        e \in {"connection refused", "operation timed out"} }
        \cup { [kind |-> "response", status |-> s, body |-> b] :
                 s \in Statuses, b \in {"", "busy"} }

\* Mutant of send_command: the status of a completed exchange is not looked at.
send_command_AnyResponseOk(cfg, outcome) ==
    IF outcome.kind = "transport_error"
    THEN [ tag |-> "Err",
           msg |-> [ text |-> "HTTP error sending SetData",
                     cfg |-> cfg, error |-> outcome.error ] ]
    ELSE [tag |-> "Ok"]

\* send_command.  serde_json::to_string cannot fail for a SetDataConfig (two
\* u32 and a Vec<i64>), so its error branch has no outcome here.
send_command(cfg, outcome) ==
    IF outcome.kind = "transport_error"
    THEN [ tag |-> "Err",
           msg |-> [ text |-> "HTTP error sending SetData",
                     cfg |-> cfg, error |-> outcome.error ] ]
    ELSE IF is_success(outcome.status)
         THEN [tag |-> "Ok"]
         ELSE [ tag |-> "Err",
                msg |-> [ text |-> "SetData rejected",
                          status |-> outcome.status, body |-> outcome.body ] ]

\* reader.rs 52: the path fetch_sensor requests (with ?key=<KEY>).
SensorPath == "/device/sensor"

\* controller.rs 21: the path send_command requests (with ?config=<json>).
SetDataPath == "/rpc/Indevolt.SetData"

\* controller.rs 8-15: the two registers the dispatcher writes.  A write of
\* register 47005 sets the working mode, a write of 47015 sets the real-time
\* control triple [action, power_w, soc_percent].
Applied(dev, cfg) ==
    IF cfg.t = REG_WORKING_MODE
    THEN [dev EXCEPT !.mode = cfg.v[1]]
    ELSE [dev EXCEPT !.control = cfg.v]

\* The registers after one exchange: a write the device answered with a 2xx
\* status was applied, one it answered otherwise was not, and one whose
\* exchange broke may or may not have reached the device.
DeviceAfter(dev, cfg, outcome) ==
    IF outcome.kind = "transport_error"
    THEN {dev, Applied(dev, cfg)}
    ELSE IF is_success(outcome.status) THEN {Applied(dev, cfg)} ELSE {dev}

\* Mutant of Dispatch: a command that failed is sent a second time.
Dispatch_RetryOnError(cfg) ==
    /\ \E first \in CmdOutcomes, second \in CmdOutcomes :
         IF send_command(cfg, first).tag = "Err"
         THEN /\ http' = second
              /\ cmd_result' = send_command(cfg, second)
              /\ exchanges' = 2
              /\ device' \in DeviceAfter(device, cfg, second)
         ELSE /\ http' = first
              /\ cmd_result' = send_command(cfg, first)
              /\ exchanges' = 1
              /\ device' \in DeviceAfter(device, cfg, first)
    /\ cmd' = cfg
    /\ url' = SetDataPath
    /\ realtime_issued' =
          (realtime_issued \/ (cfg.t = REG_WORKING_MODE /\ cfg.v = << register_value("RealtimeControl") >>))
    /\ UNCHANGED << loopVars, meterVars, configVars >>

\* One call of a dispatcher function with the config it builds: send_command
\* sends one request and returns what that exchange gives.
Dispatch(cfg) ==
    /\ \E outcome \in CmdOutcomes :
         /\ http' = outcome
         /\ cmd_result' = send_command(cfg, outcome)
         /\ device' \in DeviceAfter(device, cfg, outcome)
    /\ cmd' = cfg
    /\ exchanges' = 1
    /\ url' = SetDataPath
    /\ realtime_issued' =
          (realtime_issued \/ (cfg.t = REG_WORKING_MODE /\ cfg.v = << register_value("RealtimeControl") >>))
    /\ UNCHANGED << loopVars, meterVars, configVars >>

\* Mutant of set_working_mode: the register gets the position of the mode in
\* the enum instead of its register value.
set_working_mode_WritesOrdinal(mode) ==
    Dispatch([f |-> FUNC_WRITE, t |-> REG_WORKING_MODE,
              v |-> << CASE mode = "SelfConsumedPrioritized" -> 0
                         [] mode = "RealtimeControl" -> 1
                         [] mode = "Schedule" -> 2 >>])

set_working_mode(mode) ==
    Dispatch([f |-> FUNC_WRITE, t |-> REG_WORKING_MODE, v |-> << register_value(mode) >>])

\* Mutant of charge: the dispatcher refuses to charge before real-time control
\* was set.
charge_RequiresRealtime(watts, max_soc_percent) ==
    /\ realtime_issued
    /\ Dispatch([f |-> FUNC_WRITE, t |-> REG_CONTROL,
                 v |-> << ACTION_CHARGE, watts, max_soc_percent >>])

charge(watts, max_soc_percent) ==
    Dispatch([f |-> FUNC_WRITE, t |-> REG_CONTROL,
              v |-> << ACTION_CHARGE, watts, max_soc_percent >>])

\* Mutant of discharge: the power is written with the sign of a battery power
\* (negative = discharging).
discharge_NegatesWatts(watts, min_soc_percent) ==
    Dispatch([f |-> FUNC_WRITE, t |-> REG_CONTROL,
              v |-> << ACTION_DISCHARGE, 0 - watts, min_soc_percent >>])

discharge(watts, min_soc_percent) ==
    Dispatch([f |-> FUNC_WRITE, t |-> REG_CONTROL,
              v |-> << ACTION_DISCHARGE, watts, min_soc_percent >>])

\* Mutant of stop: stopping hands control back to the inverter by writing the
\* working-mode register.
stop_HandsBackControl ==
    Dispatch([f |-> FUNC_WRITE, t |-> REG_WORKING_MODE,
              v |-> << register_value("SelfConsumedPrioritized") >>])

stop ==
    Dispatch([f |-> FUNC_WRITE, t |-> REG_CONTROL, v |-> << ACTION_STOP, 0, 0 >>])

\* controller.rs 57-59.
enable_realtime_mode ==
    set_working_mode("RealtimeControl")

\* controller.rs 95-97.
restore_auto_mode ==
    set_working_mode("SelfConsumedPrioritized")

\* A caller of the dispatcher: one call of one public function, with the
\* arguments the caller chose.
CallSetWorkingMode ==
    \E mode \in Modes :
        /\ intent' = [op |-> "set_working_mode", mode |-> mode]
        /\ set_working_mode(mode)

CallEnableRealtimeMode ==
    /\ intent' = [op |-> "enable_realtime_mode"]
    /\ enable_realtime_mode

CallCharge ==
    \E w \in Watts, s \in SocPercents :
        /\ intent' = [op |-> "charge", watts |-> w, soc |-> s]
        /\ charge(w, s)

CallDischarge ==
    \E w \in Watts, s \in SocPercents :
        /\ intent' = [op |-> "discharge", watts |-> w, soc |-> s]
        /\ discharge(w, s)

CallStop ==
    /\ intent' = [op |-> "stop"]
    /\ stop

CallRestoreAutoMode ==
    /\ intent' = [op |-> "restore_auto_mode"]
    /\ restore_auto_mode

DispatcherNext ==
    \/ CallSetWorkingMode
    \/ CallEnableRealtimeMode
    \/ CallCharge
    \/ CallDischarge
    \/ CallStop
    \/ CallRestoreAutoMode

DispatcherSpec == Init /\ [][DispatcherNext]_vars

-----------------------------------------------------------------------------
(* handlers/p1/reader.rs as functions: parse_p1_timestamp and read_p1 are  *)
(* applied to inputs drawn in the initial state.                            *)

\* How the meter GET of a read_p1 call can end, with every pair of timestamps.
MeterDocOutcomes ==
    { [kind |-> "transport_error"] }
        \cup { [kind |-> "response", status |-> st, body |-> b] :
                 st \in Statuses,
                 b \in { [json_ok |-> FALSE] }
                         \cup { P1Document([m |-> 5, e |-> 0], t1, t2) :
                                  t1 \in Timestamps, t2 \in Timestamps } }

MeterInit ==
    /\ LoopInit
    /\ ConfigLoaded
    /\ ts_in \in Timestamps
    /\ ts_out = Unset
    /\ meter_doc \in MeterDocOutcomes
    /\ reading = Unset

\* One call of parse_p1_timestamp(ts_in).
ParseTimestamp ==
    /\ ts_out = Unset
    /\ ts_out' = parse_p1_timestamp(ts_in)
    /\ UNCHANGED << loopVars, cmdVars, configVars, ts_in, meter_doc, reading >>

\* One call of read_p1 whose GET ends as meter_doc.
ReadP1 ==
    /\ reading = Unset
    /\ \E now \in WallClocks : reading' = read_p1(meter_doc, now)
    /\ UNCHANGED << loopVars, cmdVars, configVars, ts_in, ts_out, meter_doc >>

MeterNext == ParseTimestamp \/ ReadP1

MeterSpec == MeterInit /\ [][MeterNext]_vars

-----------------------------------------------------------------------------
(* configuration/config.rs and main.rs 24-46: start-up *)

ConfigInit ==
    /\ LoopInit
    /\ MeterIdle
    /\ config_file \in ConfigFiles
    /\ config = Unset
    /\ usable = Unset
    /\ started = FALSE

\* main.rs 24: let config = load_config();
LoadConfig ==
    /\ config = Unset
    /\ config' = load_config(config_file)
    /\ UNCHANGED << loopVars, cmdVars, meterVars, config_file, usable, started >>

\* A call of config.usable_capacity_kwh()
UsableCapacity ==
    /\ config # Unset
    /\ config.tag = "Config"
    /\ usable' = [tag |-> "Some", value |-> usable_capacity_kwh(config.value)]
    /\ UNCHANGED << loopVars, cmdVars, meterVars, config_file, config, started >>

\* main.rs 40-46: with a configuration returned, main reaches `loop`.
EnterLoop ==
    /\ config # Unset
    /\ config.tag = "Config"
    /\ ~started
    /\ started' = TRUE
    /\ UNCHANGED << loopVars, cmdVars, meterVars, config_file, config, usable >>

ConfigNext == LoadConfig \/ UsableCapacity \/ EnterLoop

ConfigSpec == ConfigInit /\ [][ConfigNext]_vars

-----------------------------------------------------------------------------
(* Properties *)

MeterInFlight == \E r \in inflight : r.target = "p1"

SensorsInFlight == { r \in inflight : r.target \in ModelKeys }

\* The meter GET failed in transport, or its body is not a P1Data document.
MeterFailed ==
    \/ meter_http.kind = "transport_error"
    \/ meter_http.kind = "response" /\ ~meter_http.body.json_ok

\* C1: a failed meter fetch (transport error or JSON decode error) never aborts
\* the cycle: the step that completes it leaves the reading absent and sends the
\* battery's sensor requests of the same cycle, and with the reading absent the
\* loop goes from Fetching-Battery to Reconciling (with a snapshot) and from
\* Reconciling to Sleeping, and is never left without a next step.
C1_Step ==
    /\ (pc = "FetchingMeter" /\ pc' # pc /\ MeterFailed')
        => /\ p1' = None
           /\ pc' = "FetchingBattery"
           /\ SensorsInFlight' = SensorRequests(cycle)
    /\ (p1 = None /\ pc = "FetchingBattery" /\ pc' # pc)
        => /\ pc' = "Reconciling"
           /\ battery' # Unset
    /\ (p1 = None /\ pc = "Reconciling" /\ pc' # pc)
        => /\ pc' = "Sleeping"
           /\ ems_log'.kind = "no_p1"

C1_MeterFailureNeverAbortsCycle ==
    /\ [](p1 = None => ENABLED Next)
    /\ [][C1_Step]_vars

\* C1 witness: the meter fetch failed in this cycle, the battery was read all
\* the same, and the loop has reached Sleeping.
C1_Witness ==
    /\ pc = "Sleeping"
    /\ p1 = None
    /\ battery # Unset
    /\ ems_log.kind = "no_p1"

\* The order of the steps; the only other change of step is the abort of
\* ReconcilePanic.
StepOrder ==
    { << "Idle", "FetchingMeter" >>, << "FetchingMeter", "FetchingBattery" >>,
      << "FetchingBattery", "Reconciling" >>, << "Reconciling", "Sleeping" >>,
      << "Sleeping", "Idle" >>, << "Reconciling", "Panicked" >> }

\* C2: the steps of a cycle follow in the order Fetching-Meter,
\* Fetching-Battery, Reconciling, Sleeping; sensor requests are in flight only
\* during Fetching-Battery, after the meter fetch has returned, the meter
\* request is in flight only during Fetching-Meter, so the two are never in
\* flight together; and Reconciling is entered only with every sensor request
\* completed and the snapshot built.
C2_StepsInFixedOrder ==
    /\ [][pc' # pc => << pc, pc' >> \in StepOrder]_vars
    /\ [](MeterInFlight => pc = "FetchingMeter" /\ SensorsInFlight = {})
    /\ [](SensorsInFlight # {}
            => pc = "FetchingBattery" /\ p1 # Unset /\ ~MeterInFlight)
    /\ [](pc = "Reconciling"
            => SensorsInFlight = {} /\ battery # Unset /\ p1 # Unset)

\* C2 witness: the battery fetch is under way, with some sensor requests done
\* and some still in flight, after the meter fetch returned a reading.
C2_Witness ==
    /\ pc = "FetchingBattery"
    /\ p1.tag = "Some"
    /\ SensorsInFlight # {}
    /\ \E k \in ModelKeys : results[k] # Pending

\* The snapshot field that a sensor key feeds, its default, and a device value
\* string as that field's type (the default when it is no number).
Field(b, k) ==
    CASE k = "BatterySOC" -> b.battery_soc
      [] k = "BatteryState" -> b.battery_state
      [] k = "MeterPower" -> b.meter_power_w

DefaultOf(k) == IF k = "BatteryState" THEN "" ELSE 0

Decoded(k, v) == IF k = "BatteryState" THEN v ELSE IF v = "85" THEN 85 ELSE 0

\* The requests of this read whose response reports key k in its body.
Reporters(k) ==
    { q \in ModelKeys : responses[q].tag = "Some" /\ responses[q].key = k }

KeyIndex(k) == CHOOSE i \in 1..Len(SNAPSHOT_KEYS) : SNAPSHOT_KEYS[i] = k

\* C3: partial-failure isolation of the per-key adapter: in the snapshot, the
\* field of every key whose call failed has its default and the field of every
\* other key holds the value the device returned to that key's request.
C3_PartialFailureIsolation ==
    pc = "Reconciling" =>
        \A k \in ModelKeys :
            IF responses[k] = None
            THEN Field(battery, k) = DefaultOf(k)
            ELSE Field(battery, k) = Decoded(k, responses[k].value)

\* C4: the Sleeping step sleeps interval - elapsed when the awaited I/O of this
\* cycle took less than the interval (25 s after a 5 s cycle), and otherwise
\* does not sleep, logs the overrun and lets no time pass before the next cycle;
\* elapsed is the time of the current cycle alone, whatever earlier cycles did.
C4_Step ==
    /\ (pc = "Sleeping" /\ pc' # pc)
        => /\ pc' = "Idle"
           /\ IF work < interval
              THEN /\ sleep_log' = [kind |-> "sleeping", remaining |-> interval - work]
                   /\ clock' = clock + (interval - work)
              ELSE /\ sleep_log' = [kind |-> "overrun", remaining |-> 0]
                   /\ clock' = clock
           /\ (work = 5 => sleep_log'.remaining = poll_interval_seconds - 5)
           /\ (work = 35 => sleep_log'.kind = "overrun")
    /\ (pc = "Idle" /\ pc' # pc)
        => /\ pc' = "FetchingMeter"
           /\ MeterInFlight'
           /\ work' = 0

C4_SleepsRemainderOfThisCycle == [][C4_Step]_vars

\* C4 witness: in a cycle after the first, 5 s of I/O were followed by a sleep
\* of 25 s.
C4_Witness ==
    /\ pc = "Idle"
    /\ prevBattery # Unset
    /\ work = 5
    /\ sleep_log = [kind |-> "sleeping", remaining |-> 25]

\* C5: every HTTP request in flight belongs to the current cycle, and none is
\* in flight while the loop sleeps or stands at the top of the next cycle.
C5_NoOverlappingIO ==
    /\ \A r \in inflight : r.cyc = cycle
    /\ pc \in {"Sleeping", "Idle"} => inflight = {}

\* C5 witness: in a cycle after the first, all sensor requests are in flight.
C5_Witness ==
    /\ pc = "FetchingBattery"
    /\ prevBattery # Unset
    /\ inflight = SensorRequests(cycle)

\* C6: the loop has no terminal state: in every reachable state a next step
\* exists (the loop never exits or deadlocks).
C6_NoTerminalState == ENABLED Next

C8_JoinAllThenMergeByKey ==
    /\ pc = "FetchingBattery" =>
        \A k \in ModelKeys :
            responses[k] = Pending <=> [cyc |-> cycle, target |-> k] \in inflight
    /\ pc = "Reconciling" =>
        /\ \A k \in ModelKeys : responses[k] # Pending
        /\ SensorsInFlight = {}
        /\ \A k \in ModelKeys :
             IF Reporters(k) = {}
             THEN Field(battery, k) = DefaultOf(k)
             ELSE LET last == CHOOSE q \in Reporters(k) :
                                 \A o \in Reporters(k) : KeyIndex(o) <= KeyIndex(q)
                  IN  Field(battery, k) = Decoded(k, responses[last].value)

\* C8 witness: all requests have completed and two of the responses report the
\* same key with different values, so that a merge by arrival would depend on
\* the order of completion.
C8_Witness ==
    /\ pc = "Reconciling"
    /\ \A k \in ModelKeys : responses[k] # Pending
    /\ \E k \in ModelKeys : \E q1, q2 \in Reporters(k) :
         responses[q1].value # responses[q2].value

\* C9: a dispatcher call returns Ok exactly when its HTTP exchange completed
\* with a 2xx status; a completed exchange with another status returns Err with
\* that status and body, a transport failure returns Err with the error text;
\* every call returns Ok or Err.
C9_ResultClassification ==
    cmd # NoCmd =>
        /\ cmd_result.tag \in {"Ok", "Err"}
        /\ cmd_result.tag = "Ok"
             <=> (http.kind = "response" /\ http.status \div 100 = 2)
        /\ (http.kind = "response" /\ http.status \div 100 # 2)
             => /\ cmd_result.msg.status = http.status
                /\ cmd_result.msg.body = http.body
        /\ http.kind = "transport_error" => cmd_result.msg.error = http.error

\* C9 witness: a charge command answered with HTTP 404 returned Err with the
\* status and the body.
C9_Witness ==
    /\ cmd # NoCmd
    /\ cmd.t = REG_CONTROL
    /\ http.kind = "response"
    /\ http.status = 404
    /\ cmd_result.tag = "Err"
    /\ cmd_result.msg.status = 404

\* C10: every Err of the dispatcher, for a transport failure and for a
\* non-success status alike, names the offending command.
C10_EveryErrNamesCommand ==
    cmd_result.tag = "Err" =>
        /\ "cfg" \in DOMAIN cmd_result.msg
        /\ cmd_result.msg.cfg = cmd

\* C11: every dispatcher call makes exactly one HTTP exchange, whether it
\* succeeds or fails, and what it returns is the result of that one exchange:
\* a failed exchange is handed back as Err and is not sent again.
C11_OneExchangePerIntent ==
    cmd # NoCmd =>
        /\ exchanges = 1
        /\ cmd_result = send_command(cmd, http)
        /\ (http.kind = "transport_error" \/ ~is_success(http.status))
             => cmd_result.tag = "Err"

\* C11 witness: a stop command whose exchange failed in transport was returned
\* as Err after one exchange.
C11_Witness ==
    /\ cmd # NoCmd
    /\ cmd.v = << ACTION_STOP, 0, 0 >>
    /\ http.kind = "transport_error"
    /\ cmd_result.tag = "Err"
    /\ exchanges = 1

\* The SetDataConfig the code builds for each real-time command.
ControlEncodings ==
    { [f |-> FUNC_WRITE, t |-> REG_CONTROL, v |-> << a, w, soc >>] :
        a \in {ACTION_CHARGE, ACTION_DISCHARGE}, w \in Watts, soc \in SocPercents }
        \cup { [f |-> FUNC_WRITE, t |-> REG_CONTROL, v |-> << ACTION_STOP, 0, 0 >>] }

\* C12: the dispatcher neither enforces nor remembers the mode sequencing:
\* whether or not set_working_mode(RealtimeControl) was called before, every
\* charge, discharge and stop call is accepted, is encoded in the same way, and
\* returns what its own exchange gives; no call depends on an earlier one.
C12_NoModeSequencing ==
    /\ \A w \in Watts, soc \in SocPercents :
         ENABLED charge(w, soc) /\ ENABLED discharge(w, soc)
    /\ ENABLED stop
    /\ \A mode \in Modes : ENABLED set_working_mode(mode)
    /\ (cmd # NoCmd /\ cmd.t = REG_CONTROL)
         => /\ cmd \in ControlEncodings
            /\ cmd_result = send_command(cmd, http)

\* C12 witness: a charge command was sent and accepted although no
\* set_working_mode(RealtimeControl) call was ever made.
C12_Witness ==
    /\ ~realtime_issued
    /\ cmd # NoCmd
    /\ cmd.t = REG_CONTROL
    /\ cmd.v[1] = ACTION_CHARGE
    /\ cmd_result.tag = "Ok"

\* The protocol variant a request path belongs to.
Variant(path) ==
    IF path \in {"/device/sensor", "/device/control"} THEN "per-key"
    ELSE IF path \in {"/rpc/Indevolt.GetData", "/rpc/Indevolt.SetData"} THEN "batched"
    ELSE "unknown"

\* C13: the command dispatcher speaks the protocol variant of the inverter
\* reader the loop uses: the path a command is sent to and the path the sensors
\* are read from belong to the same variant.
C13_OneProtocolVariant ==
    cmd # NoCmd => Variant(url) = Variant(SensorPath)

\* The read_p1 call under look got a document that decodes.
DocDecodes == meter_doc.kind = "response" /\ meter_doc.body.json_ok

\* What read_p1 has to put in a timestamp field: the parsed instant, or the
\* wall-clock time when the string does not parse to one instant.
ExpectedTimestamp(str) ==
    LET parsed == parse_p1_timestamp(str)
    IN  IF parsed.tag = "Ok" THEN {parsed.ts} ELSE WallClocks

\* The string is twelve ASCII digits that form a date and a time of day.
IsWellFormed(str) ==
    /\ Len(str) = 12
    /\ \A i \in 1..12 : IsDigit(str[i])
    /\ parse_from_str([i \in 1..6 |-> SubSeq(str, 2 * i - 1, 2 * i)]).ok

\* C14: when the meter document decodes, read_p1 returns a present reading
\* whatever its two timestamps are; a timestamp that breaks the 12-character
\* format or has no single UTC instant is replaced by the wall-clock time, the
\* other timestamp and the other fields are as the document gives them, and
\* each replacement is logged at warning level, never as an error.
C14_TimestampFallback ==
    (reading # Unset /\ DocDecodes) =>
        /\ reading.ret.tag = "Some"
        /\ reading.ret.raw = from_json(meter_doc.body).raw
        /\ reading.ret.monthly_power_peak_timestamp_utc
             \in ExpectedTimestamp(meter_doc.body.montly_power_peak_timestamp)
        /\ reading.ret.gas_timestamp_utc
             \in ExpectedTimestamp(meter_doc.body.gas_timestamp)
        /\ \A i \in 1..Len(reading.log) : reading.log[i].level = "warn"
        /\ (\E i \in 1..Len(reading.log) : reading.log[i].what = "gas_timestamp")
             <=> parse_p1_timestamp(meter_doc.body.gas_timestamp).tag # "Ok"
        /\ (\E i \in 1..Len(reading.log) :
                reading.log[i].what = "monthly_power_peak_timestamp")
             <=> parse_p1_timestamp(meter_doc.body.montly_power_peak_timestamp).tag # "Ok"

\* C15: parse_p1_timestamp returns Err, and does not panic, for every string
\* that is not a well-formed 12-character timestamp.
C15_MalformedTimestampIsErr ==
    (ts_out # Unset /\ ~IsWellFormed(ts_in)) => ts_out.tag = "Err"

\* C16: a meter response with a non-2xx status gives an absent reading for the
\* cycle, whatever its body.
C16_NonSuccessStatusIsAbsent ==
    (pc = "FetchingBattery" /\ meter_http.kind = "response"
        /\ ~is_success(meter_http.status))
    => p1 = None

\* C17: every cycle's Reconciling step produces exactly one record: with a
\* meter reading, the meter power, the inverter's grid-meter power, their
\* difference (meter minus inverter) and the battery telemetry; without one,
\* the degraded-cycle notice and no difference.
C17_OneReconcileRecord ==
    /\ pc # "Panicked"
    /\ pc = "Sleeping" =>
         IF p1.tag = "Some"
         THEN /\ ems_log.kind = "reconcile"
              /\ ems_log.p1_w = AsI32(p1.raw.active_power_w)
              /\ ems_log.inv_w = battery.meter_power_w
              /\ ~SubOverflows(ems_log.p1_w, ems_log.inv_w)
              /\ ems_log.diff_w = ems_log.p1_w - ems_log.inv_w
              /\ ems_log.battery_soc = battery.battery_soc
              /\ ems_log.battery_state = battery.battery_state
         ELSE ems_log = [kind |-> "no_p1"]

\* C18: the loop sends no control command: no dispatcher call is ever made in
\* a run of the loop, and every request in flight is the meter read or a
\* sensor read.
C18_LoopSendsNoCommand ==
    /\ cmd = NoCmd
    /\ exchanges = 0
    /\ url = ""
    /\ \A r \in inflight : r.target = "p1" \/ r.target \in ModelKeys

\* C18 witness: a cycle with a meter reading and a battery snapshot was
\* reconciled, and no command has been sent.
C18_Witness ==
    /\ pc = "Sleeping"
    /\ ems_log.kind = "reconcile"
    /\ battery.battery_soc = 85
    /\ cmd = NoCmd

\* C19: a configuration whose min SOC is above its max SOC is rejected when it
\* is loaded: load_config does not return it and the loop does not start with it.
C19_MinAboveMaxRejected ==
    (config # Unset /\ config.tag = "Config") =>
        config.value.battery_min_soc_percent <= config.value.battery_max_soc_percent

\* C20: usable_capacity_kwh is rated * (max SOC - min SOC) / 100; it is 10.8 kWh
\* for the default configuration (12.0 kWh, 10 %, 100 %); it is not negative
\* when min SOC <= max SOC and the rated capacity is not negative.
C20_UsableCapacity ==
    usable # Unset =>
        LET c == config.value
        IN  /\ 100 * usable.value = c.battery_rated_capacity_kwh
                                      * (c.battery_max_soc_percent - c.battery_min_soc_percent)
            /\ c = DefaultConfig => usable.value = 10800
            /\ (c.battery_min_soc_percent <= c.battery_max_soc_percent
                  /\ c.battery_rated_capacity_kwh >= 0) => usable.value >= 0

\* C20 witness: the usable capacity of the default configuration was computed
\* and is 10.8 kWh.
C20_Witness ==
    /\ usable # Unset
    /\ config.value = DefaultConfig
    /\ usable.value = 10800


\* The canonical activity labels: the three named states and Unknown(code) for
\* any other value the device reports.
CanonicalStates ==
    {"Static", "Charging", "Discharging"}
        \cup { "Unknown(" \o v \o ")" : v \in DeviceValues }

\* C21: in every snapshot the adapter produced, whatever sensors succeeded or
\* failed, the battery activity state is one of the canonical labels Static,
\* Charging, Discharging or Unknown(code): never empty, never another string.
C21_BatteryStateIsCanonical ==
    pc = "Reconciling" => battery.battery_state \in CanonicalStates

\* The mode a mode-setting call asks for.
IntentMode ==
    CASE intent.op = "set_working_mode" -> intent.mode
      [] intent.op = "enable_realtime_mode" -> "RealtimeControl"
      [] intent.op = "restore_auto_mode" -> "SelfConsumedPrioritized"

ModeSettingOps == {"set_working_mode", "enable_realtime_mode", "restore_auto_mode"}

CivilTime(str) ==
    LET n == parse_from_str([i \in 1..6 |-> SubSeq(str, 2 * i - 1, 2 * i)]).naive
    IN  [ yy |-> n.yy,
          days |-> DaysSince2000(n.yy, n.mo, n.d),
          secs |-> n.h * 3600 + n.mi * 60 + n.sec ]

\* The instant `hours` hours after instant t.
HoursAfter(t, hours) ==
    LET total == t.secs + hours * 3600
    IN  IF total < 0 THEN [days |-> t.days - 1, secs |-> total + 86400]
        ELSE IF total >= 86400 THEN [days |-> t.days + 1, secs |-> total - 86400]
        ELSE [days |-> t.days, secs |-> total]

\* The hours the local zone is ahead of UTC at instant t of year 20yy: summer
\* time runs from 01:00 UTC on the last Sunday of March to 01:00 UTC on the
\* last Sunday of October.
UtcOffsetAt(yy, t) ==
    LET AtOrAfter(x, d) == x.days > d \/ (x.days = d /\ x.secs >= 3600)
    IN  IF /\ AtOrAfter(t, DaysSince2000(yy, 3, LastSunday(yy, 3)))
           /\ ~AtOrAfter(t, DaysSince2000(yy, 10, LastSunday(yy, 10)))
        THEN 2
        ELSE 1

\* The UTC instants at which the local clock shows the civil time of str.
InstantsOf(str) ==
    LET c == CivilTime(str)
        civil == [days |-> c.days, secs |-> c.secs]
    IN  { t \in { HoursAfter(civil, -o) : o \in {1, 2} } :
            HoursAfter(t, UtcOffsetAt(c.yy, t)) = civil }

\* C23 as stated: for every well-formed timestamp parse_p1_timestamp yields
\* the UTC instant of that civil time in the local zone.
C23_EveryWellFormedYieldsInstant ==
    (ts_out # Unset /\ IsWellFormed(ts_in)) =>
        /\ ts_out.tag = "Ok"
        /\ ts_out.ts \in InstantsOf(ts_in)

\* C23, amended: for every well-formed timestamp whose civil time is shown by
\* the local clock at exactly one instant, parse_p1_timestamp yields that UTC
\* instant ("231231235959" yields 2023-12-31 22:59:59 UTC, the instant of
\* 23:59:59 local time); for a civil time in the hour skipped or repeated at a
\* summer-time change it returns Err.
C23_UniqueCivilTimeYieldsInstant ==
    (ts_out # Unset /\ IsWellFormed(ts_in)) =>
        /\ IF Cardinality(InstantsOf(ts_in)) = 1
           THEN ts_out.tag = "Ok" /\ ts_out.ts \in InstantsOf(ts_in)
           ELSE ts_out.tag = "Err"
        /\ ts_in = Ts(231231, 235959)
             => ts_out = [tag |-> "Ok", ts |-> [days |-> 8765, secs |-> 82799]]

C23_Witness ==
    /\ ts_in = Ts(231231, 235959)
    /\ ts_out # Unset
    /\ ts_out.tag = "Ok"

ControlOps == {"charge", "discharge", "stop"}

\* A call of charge, discharge or stop leaves the device's working mode as it
\* was, and a call of stop sends one write of the control register with
\* action stop, power 0 and SOC 0, which changes that register only.
C24_Step ==
    intent'.op \in ControlOps =>
        /\ device'.mode = device.mode
        /\ intent'.op = "stop" =>
              /\ cmd' = [f |-> FUNC_WRITE, t |-> REG_CONTROL, v |-> << 0, 0, 0 >>]
              /\ device'.control \in {device.control, << 0, 0, 0 >>}
              /\ cmd_result'.tag = "Ok" => device'.control = << 0, 0, 0 >>

\* C24: stop() writes only the real-time control register (stop, 0, 0) and
\* no charge, discharge or stop call changes the working mode: once
\* RealtimeControl is set it stays until a mode-setting call is made.
C24_StopLeavesWorkingMode == [][C24_Step]_vars

C24_Witness ==
    /\ intent.op = "stop"
    /\ cmd_result.tag = "Ok"
    /\ realtime_issued
    /\ decode_working_mode(device.mode) = "RealtimeControl"
    /\ device.control = << 0, 0, 0 >>

\* C25: after restore_auto_mode returned Ok the working mode is
\* SelfConsumedPrioritized and no charge or discharge command issued earlier
\* is still active on the control register.
C25_RestoreStopsActiveCommand ==
    (intent.op = "restore_auto_mode" /\ cmd_result.tag = "Ok") =>
        /\ decode_working_mode(device.mode) = "SelfConsumedPrioritized"
        /\ device.control[1] \notin {ACTION_CHARGE, ACTION_DISCHARGE}

\* C26: every command is one function-16 write: a mode-setting call writes
\* register 47005 with the one code of its mode, charge(w, s) writes register
\* 47015 with [1, w, s], discharge(w, s) writes it with [2, w, s] and stop
\* writes it with [0, 0, 0]; w and s are the caller's values, unclamped and
\* with their sign.
C26_ControlIntentEncoding ==
    intent # NoIntent =>
        /\ cmd.f = 16
        /\ intent.op \in ModeSettingOps =>
              /\ cmd.t = 47005
              /\ cmd.v = << CASE IntentMode = "SelfConsumedPrioritized" -> 1
                              [] IntentMode = "RealtimeControl" -> 4
                              [] IntentMode = "Schedule" -> 5 >>
        /\ intent.op = "charge" =>
              cmd.t = 47015 /\ cmd.v = << 1, intent.watts, intent.soc >>
        /\ intent.op = "discharge" =>
              cmd.t = 47015 /\ cmd.v = << 2, intent.watts, intent.soc >>
        /\ intent.op = "stop" =>
              cmd.t = 47015 /\ cmd.v = << 0, 0, 0 >>

C26_Witness ==
    /\ intent = [op |-> "discharge", watts |-> -500, soc |-> 10]
    /\ cmd = [f |-> 16, t |-> 47015, v |-> << 2, -500, 10 >>]
    /\ cmd_result.tag = "Ok"

\* C27: the reconcile difference never overflows and never ends the loop:
\* whenever the loop reconciles a meter reading with a snapshot, the meter
\* power as a 32-bit integer minus the inverter's meter power is within the
\* 32-bit signed range.
C27_DifferenceFitsI32 ==
    /\ pc # "Panicked"
    /\ (pc = "Reconciling" /\ p1.tag = "Some") =>
          ~SubOverflows(AsI32(p1.raw.active_power_w), battery.meter_power_w)

\* C28: the field of key K is filled from the response to the request for K
\* and from no other: a successful response to the request for K puts its
\* value in the field of K, whatever key name its body reports, and puts
\* nothing in the field of another key.
C28_FieldFromOwnRequestOnly ==
    pc = "Reconciling" =>
        \A k \in ModelKeys :
            /\ responses[k].tag = "Some" =>
                  Field(battery, k) = Decoded(k, responses[k].value)
            /\ \A other \in ModelKeys \ {k} :
                  (responses[k].tag = "Some" /\ responses[other] = None)
                      => Field(battery, other) = DefaultOf(other)
=============================================================================
